---- MODULE Spec2Model ----
(***************************************************************************)
(* RandomX CUDA, kernel.cu: main, the mining run (test_mining) and the    *)
(* kernel tests (tests), together with the CUDA device they drive.         *)
(*                                                                         *)
(* The host is one control thread; pc is its position: M.. in main, L.. in *)
(* test_mining, T.. in tests, by source line.                              *)
(* Kernel launches are asynchronous: a launch appends the kernel to the    *)
(* device's stream (queue), the device runs the stream in issue order, and *)
(* only cudaDeviceSynchronize waits for the stream to drain.               *)
(*                                                                         *)
(* Scaling.  Byte counts are kept in model bytes: one megabyte (1 << 20)   *)
(* is MB model bytes, so the 2 GB dataset, the 2 MB scratchpad and the     *)
(* 64 MB headroom keep their ratios and free memory takes values that are  *)
(* not multiples of any of them.  uint32_t is WordBits bits wide.          *)
(***************************************************************************)
EXTENDS Integers, Sequences, FiniteSets, TLC

\* ------------------------------------------------------------------ bounds
MB == 3
WordBits == 7
MaxGroups == 3
MaxBatches == 6
TestLanes == 4
ScratchChunks == 3
ProgChunks == 2

\* --------------------------------------------------------------- constants
LANE_GROUP == 32
HEADROOM_MB == 64
MIN_SCRATCHPADS == 32
DATASET_MB == 2048
SCRATCHPAD_MB == 2
PROGRAM_COUNT == 8
WIDE_DIGEST == 64
FINAL_DIGEST == 32
NUM_SCRATCHPADS_TEST == 128
NUM_SCRATCHPADS_BENCH == 2048
HASH_WORDS == 8
WORD_BYTES == 8
MEGA == 2 ^ 20
CHUNK == 64
COOPERATING == 4

DATASET_SIZE == DATASET_MB * MB
SCRATCHPAD_SIZE == SCRATCHPAD_MB * MB
HEADROOM == HEADROOM_MB * MB
U32 == 2 ^ WordBits
NONCE_LIMIT == U32 - 1

Buffers == {"tmp", "dataset", "scratchpads", "hashes", "programs", "registers", "blockTemplate"}

\* The GPUPtr objects of tests(), lines 293-332.
TestBuffers == {"hash_gpu", "block_template_gpu", "nonce_gpu", "states_gpu",
                "scratchpads_gpu", "programs_gpu", "registers_gpu"}

AllBuffers == Buffers \cup TestBuffers

\* The device memory test_mining computes in: the template copy, the per-lane
\* hash, scratchpad and program buffers, and the register file in two parts,
\* its bytes below the compress offset 192 and its bytes from 192 on.
Regions == {"blockTemplate", "hashes", "scratchpads", "programs", "regLow", "regOut"}

\* What a region's bytes were computed from: nothing yet (as cudaMalloc left
\* them), the zero fill, the host's block template, the nonce base of a batch.
Uninit == <<"uninit", 0>>
Zero == <<"zero", 0>>
Template == <<"template", 0>>
NonceTag(n) == <<"nonce", n>>

VARIABLES
    pc,            \* position of the control thread
    result,        \* what the mode function returned: "running", "true", "false", "void"
    reported,      \* the message written to stderr, "none" before any
    device_free,   \* free device memory, in model bytes
    free_mem,      \* size_t free_mem
    batch_size,    \* const size_t batch_size (0 before line 127)
    ptr,           \* GPUPtr::p per object: "unborn", "null", "valid", "dead"
    mallocs,       \* successful cudaMalloc calls per buffer
    frees,         \* cudaFree calls per buffer
    registersZeroed, \* the cudaMemset of line 170 has been done
    templateCopied,  \* the cudaMemcpy of line 184 has been done
    nonce,         \* uint32_t nonce
    k,             \* uint32_t k
    i,             \* size_t i, the program round
    queue,         \* kernels launched and not yet run by the device, in order
    lastError,     \* the runtime's last launch error: "none" or the kernel
    deviceFault,   \* a kernel faulted while running
    hashWidth,     \* bytes of hashes_gpu the last hash kernel wrote per lane
    issued,        \* kernels launched in the current batch, in order
    unchecked,     \* launches since the last cudaGetLastError
    unconfirmed,   \* kernels launched since the last cudaDeviceSynchronize
    mem,           \* what each device buffer of test_mining holds, as the set
                   \* of inputs its bytes were computed from
    mode,          \* argv[1] of main: "usage" (argc < 3), "mine", "test", "other"
    exitStatus,    \* what main returned, -1 while the process runs
    mainError,     \* the message main itself wrote to stderr, "none" before any
    defect,        \* the kernel whose output differs from the reference, or "none"
    passed,        \* the "... test passed" lines tests() has printed, in order
    ti,            \* the lane index i of the comparison loops of tests()
    reads,         \* <<buffer, lane, chunk, byte offset>> the harness has compared
    dScratch,      \* tests(): scratchpads as copied from the device, per chunk
    dProgs,        \* tests(): programs as copied from the device, per chunk
    dRegs          \* tests(): registers_gpu, its bytes below 192 and from 192

vars == <<pc, result, reported, device_free, free_mem, batch_size, ptr, mallocs,
          frees, registersZeroed, templateCopied, nonce, k, i, queue, lastError,
          deviceFault, hashWidth, issued, unchecked, unconfirmed, mem, mode,
          exitStatus, mainError, defect, passed, ti, reads, dScratch, dProgs, dRegs>>

memVars == <<device_free, ptr, mallocs, frees>>
loopVars == <<nonce, k, i>>
deviceVars == <<queue, lastError, deviceFault, hashWidth>>
launchVars == <<issued, unchecked, unconfirmed>>
mainVars == <<mode, exitStatus, mainError>>
testVars == <<defect, passed, ti, reads, dScratch, dProgs, dRegs>>
returnVars == <<result, reported, ptr, frees, device_free, queue, hashWidth>>
miningVars == <<free_mem, batch_size, registersZeroed, templateCopied, loopVars,
                lastError, deviceFault, launchVars, mem>>

\* ------------------------------------------------------------ batch sizing
\* The guard with the minimum of 32 scratchpads left out.
NotEnoughMemory_NoMinimum(free) ==
    free <= DATASET_SIZE + HEADROOM

\* A guard that lets through free memory of exactly the dataset plus headroom.
NotEnoughMemory_Strict(free) ==
    free < DATASET_SIZE + HEADROOM

\* Line 121: the guard of the "Not enough free GPU memory!" exit.
NotEnoughMemory(free) ==
    free <= DATASET_SIZE + (MIN_SCRATCHPADS * SCRATCHPAD_SIZE) + HEADROOM

\* The batch size with the 64 MB of headroom not set aside.
PlanBatch_NoHeadroom(free) ==
    (((free - DATASET_SIZE) \div SCRATCHPAD_SIZE) \div LANE_GROUP) * LANE_GROUP

\* Line 127.
PlanBatch(free) ==
    (((free - DATASET_SIZE - HEADROOM) \div SCRATCHPAD_SIZE) \div LANE_GROUP) * LANE_GROUP

\* ------------------------------------------------------------------ GPUPtr
\* Model bytes a buffer takes; the per-lane hash, program and register
\* buffers, tmp and the template are below one model byte.
SizeOf(b) ==
    CASE b = "dataset" -> DATASET_SIZE
      [] b = "scratchpads" -> batch_size * SCRATCHPAD_SIZE
      [] b = "scratchpads_gpu" -> NUM_SCRATCHPADS_BENCH * SCRATCHPAD_SIZE
      [] b = "programs_gpu" -> NUM_SCRATCHPADS_TEST * SCRATCHPAD_SIZE
      [] b = "states_gpu" ->
            (NUM_SCRATCHPADS_TEST * HASH_WORDS * WORD_BYTES * NUM_SCRATCHPADS_BENCH * MB) \div MEGA
      [] OTHER -> 0

\* A destructor that frees without testing p.
DestructorFrees_Unconditional(p) == TRUE

\* ~GPUPtr: cudaFree only when p is not null.
DestructorFrees(p) == p = "valid"

\* The destructors that run when test_mining returns: every constructed object.
Unwind(ps, fs, df) ==
    [ptrs |-> [b \in AllBuffers |-> IF ps[b] \in {"null", "valid"} THEN "dead" ELSE ps[b]],
     frs |-> [b \in AllBuffers |-> IF ps[b] \in {"null", "valid"} /\ DestructorFrees(ps[b])
                                  THEN fs[b] + 1 ELSE fs[b]],
     free |-> LET Held == {b \in AllBuffers : ps[b] = "valid" /\ DestructorFrees(ps[b])}
                  Sum[S \in SUBSET Held] ==
                      IF S = {} THEN 0
                      ELSE LET x == CHOOSE y \in S : TRUE IN SizeOf(x) + Sum[S \ {x}]
              IN df + Sum[Held]]

\* What running a kernel leaves in the per-lane hash buffer: the two keyed
\* hash kernels write a digest of their width, the others leave its width.
HashWidthAfter(kern, w) ==
    IF kern.kernel \in {"blake2b_initial_hash", "blake2b_hash_registers"} THEN kern.width ELSE w

\* What the hash buffer holds once the device has run all of q.
RECURSIVE DrainWidth(_, _)
DrainWidth(q, w) ==
    IF q = <<>> THEN w ELSE DrainWidth(Tail(q), HashWidthAfter(Head(q), w))

\* What the buffers hold after a kernel has run, from the buffers each launch
\* is given (lines 214-259): the initial hash is computed from the template
\* and the nonce, a fill writes its region from the hash state, the register
\* initialisation writes group A (bytes 192..255) from the programs, compress
\* writes bytes 192..255 from the scratchpads, a fold hashes the registers.
MemAfter(kern, m) ==
    CASE kern.kernel = "blake2b_initial_hash" ->
            [m EXCEPT !["hashes"] = m["blockTemplate"] \cup {NonceTag(kern.base)}]
      [] kern.kernel = "fillAes1Rx4" ->
            [m EXCEPT ![kern.region] = m["hashes"]]
      [] kern.kernel = "initGroupA_registers" ->
            [m EXCEPT !["regOut"] = m["programs"]]
      [] kern.kernel = "hashAes1Rx4" ->
            [m EXCEPT !["regOut"] = m["scratchpads"]]
      [] kern.kernel = "blake2b_hash_registers" ->
            [m EXCEPT !["hashes"] = m["regLow"] \cup m["regOut"]]
      [] OTHER -> m

\* return <value>; with the destructors of the objects in scope.  cudaFree
\* waits for the device, so the stream is drained when it has run.
Return(value, message, ps, fs, df) ==
    LET u == Unwind(ps, fs, df) IN
    /\ pc' = "returned"
    /\ result' = value
    /\ reported' = message
    /\ ptr' = u.ptrs
    /\ frees' = u.frs
    /\ device_free' = u.free
    /\ queue' = <<>>
    /\ hashWidth' = IF deviceFault THEN hashWidth ELSE DrainWidth(queue, hashWidth)

\* GPUPtr x(size); if (!x) return false;
Construct(b, message, next) ==
    \E ok \in BOOLEAN :
        /\ ok => SizeOf(b) <= device_free
        /\ IF ok
           THEN /\ ptr' = [ptr EXCEPT ![b] = "valid"]
                /\ mallocs' = [mallocs EXCEPT ![b] = @ + 1]
                /\ device_free' = device_free - SizeOf(b)
                /\ pc' = next
                /\ UNCHANGED <<result, reported, frees, queue, hashWidth>>
           ELSE /\ mallocs' = mallocs
                /\ Return("false", message, [ptr EXCEPT ![b] = "null"], frees, device_free)

\* ------------------------------------------------------------------- Init
FreeCoarse ==
    {DATASET_SIZE + HEADROOM + MIN_SCRATCHPADS * SCRATCHPAD_SIZE}
    \cup {DATASET_SIZE + HEADROOM + g * LANE_GROUP * SCRATCHPAD_SIZE + 1 : g \in 1..MaxGroups}

FreeFine ==
    {0} \cup ((DATASET_SIZE + HEADROOM - 2 * SCRATCHPAD_SIZE)
              .. (DATASET_SIZE + HEADROOM + (MaxGroups + 1) * LANE_GROUP * SCRATCHPAD_SIZE - 1))

\* Test mode needs room for 2048 scratchpads: one value below, one above.
FreeTests ==
    {NUM_SCRATCHPADS_BENCH * SCRATCHPAD_SIZE, 2 * NUM_SCRATCHPADS_BENCH * SCRATCHPAD_SIZE}

\* Everything but the entry point, the free device memory, the mode and the
\* kernels' defect: nothing allocated, launched, reported or compared yet.
Fresh ==
    /\ result = "running"
    /\ reported = "none"
    /\ free_mem = 0
    /\ batch_size = 0
    /\ ptr = [b \in AllBuffers |-> "unborn"]
    /\ mallocs = [b \in AllBuffers |-> 0]
    /\ frees = [b \in AllBuffers |-> 0]
    /\ registersZeroed = FALSE
    /\ templateCopied = FALSE
    /\ nonce = 0
    /\ k = 0
    /\ i = 0
    /\ queue = <<>>
    /\ lastError = "none"
    /\ deviceFault = FALSE
    /\ hashWidth = 0
    /\ issued = <<>>
    /\ unchecked = 0
    /\ unconfirmed = 0
    /\ mem = [r \in Regions |-> {Uninit}]
    /\ exitStatus = -1
    /\ mainError = "none"
    /\ passed = <<>>
    /\ ti = 0
    /\ reads = {}
    /\ dScratch = <<>>
    /\ dProgs = <<>>
    /\ dRegs = [low |-> "unallocated", out |-> "unallocated"]

\* test_mining entered with F as the possible amounts of free device memory.
InitWith(F) ==
    /\ Fresh
    /\ pc = "L108"
    /\ device_free \in F
    /\ mode = "mine"
    /\ defect = "none"

Init == InitWith(FreeCoarse)

InitPlan == InitWith(FreeFine)

\* ------------------------------------------------ test_mining, lines 102-197
\* Line 108: GPUPtr tmp(256); the result is not tested.
AllocTmp ==
    /\ pc = "L108"
    /\ \E ok \in BOOLEAN :
        /\ ptr' = [ptr EXCEPT !["tmp"] = IF ok THEN "valid" ELSE "null"]
        /\ mallocs' = [mallocs EXCEPT !["tmp"] = IF ok THEN @ + 1 ELSE @]
    /\ pc' = "L109"
    /\ UNCHANGED <<result, reported, device_free, frees, free_mem, batch_size,
                   registersZeroed, templateCopied>>
    /\ UNCHANGED <<loopVars, deviceVars, launchVars>>
    /\ UNCHANGED <<mainVars, testVars>>
    /\ UNCHANGED mem

\* Lines 109-115: cudaMemGetInfo, then tmp goes out of scope.
GetMemInfo ==
    /\ pc = "L109"
    /\ \E ok \in BOOLEAN :
        IF ok
        THEN LET u == Unwind(ptr, frees, device_free) IN
             /\ free_mem' = device_free
             /\ ptr' = u.ptrs
             /\ frees' = u.frs
             /\ device_free' = u.free
             /\ pc' = "L121"
             /\ UNCHANGED <<result, reported, queue, hashWidth>>
        ELSE /\ free_mem' = free_mem
             /\ Return("false", "Failed to get free memory info!", ptr, frees, device_free)
    /\ UNCHANGED <<mallocs, batch_size, registersZeroed, templateCopied>>
    /\ UNCHANGED <<loopVars, lastError, deviceFault, launchVars>>
    /\ UNCHANGED <<mainVars, testVars>>
    /\ UNCHANGED mem

\* Lines 121-125.
CheckFreeMem ==
    /\ pc = "L121"
    /\ IF NotEnoughMemory(free_mem)
       THEN Return("false", "Not enough free GPU memory!", ptr, frees, device_free)
       ELSE /\ pc' = "L127"
            /\ UNCHANGED <<result, reported, ptr, frees, device_free, queue, hashWidth>>
    /\ UNCHANGED <<mallocs, free_mem, batch_size, registersZeroed, templateCopied>>
    /\ UNCHANGED <<loopVars, lastError, deviceFault, launchVars>>
    /\ UNCHANGED <<mainVars, testVars>>
    /\ UNCHANGED mem

\* Line 127.
PlanBatchSize ==
    /\ pc = "L127"
    /\ batch_size' = PlanBatch(free_mem)
    /\ pc' = "L129"
    /\ UNCHANGED <<result, reported, free_mem, registersZeroed, templateCopied>>
    /\ UNCHANGED <<memVars, loopVars, deviceVars, launchVars>>
    /\ UNCHANGED <<mainVars, testVars>>
    /\ UNCHANGED mem

\* Lines 129-134.
AllocDataset ==
    /\ pc = "L129"
    /\ Construct("dataset", "Failed to allocate GPU memory for dataset!", "L140")
    /\ UNCHANGED <<free_mem, batch_size, registersZeroed, templateCopied>>
    /\ UNCHANGED <<loopVars, lastError, deviceFault, launchVars>>
    /\ UNCHANGED <<mainVars, testVars>>
    /\ UNCHANGED mem

\* Lines 140-145.
AllocScratchpads ==
    /\ pc = "L140"
    /\ Construct("scratchpads", "Failed to allocate GPU memory for scratchpads!", "L149")
    /\ UNCHANGED <<free_mem, batch_size, registersZeroed, templateCopied>>
    /\ UNCHANGED <<loopVars, lastError, deviceFault, launchVars>>
    /\ UNCHANGED <<mainVars, testVars>>
    /\ UNCHANGED mem

\* Lines 149-154.
AllocHashes ==
    /\ pc = "L149"
    /\ Construct("hashes", "Failed to allocate GPU memory for hashes!", "L156")
    /\ UNCHANGED <<free_mem, batch_size, registersZeroed, templateCopied>>
    /\ UNCHANGED <<loopVars, lastError, deviceFault, launchVars>>
    /\ UNCHANGED <<mainVars, testVars>>
    /\ UNCHANGED mem

\* Lines 156-161.
AllocPrograms ==
    /\ pc = "L156"
    /\ Construct("programs", "Failed to allocate GPU memory for programs!", "L163")
    /\ UNCHANGED <<free_mem, batch_size, registersZeroed, templateCopied>>
    /\ UNCHANGED <<loopVars, lastError, deviceFault, launchVars>>
    /\ UNCHANGED <<mainVars, testVars>>
    /\ UNCHANGED mem

\* Lines 163-168.
AllocRegisters ==
    /\ pc = "L163"
    /\ Construct("registers", "Failed to allocate GPU memory for registers!", "L170")
    /\ UNCHANGED <<free_mem, batch_size, registersZeroed, templateCopied>>
    /\ UNCHANGED <<loopVars, lastError, deviceFault, launchVars>>
    /\ UNCHANGED <<mainVars, testVars>>
    /\ UNCHANGED mem

\* Lines 170-175: cudaMemset(registers_gpu, 0, batch_size * REGISTERS_SIZE).
\* The registers left as cudaMalloc gave them.
ZeroRegisters_Skipped(m) == m

\* cudaMemset(registers_gpu, 0, batch_size * REGISTERS_SIZE).
ZeroRegisters(m) == [m EXCEPT !["regLow"] = {Zero}, !["regOut"] = {Zero}]

\* Lines 170-175.
MemsetRegisters ==
    /\ pc = "L170"
    /\ \E ok \in BOOLEAN :
        IF ok
        THEN /\ registersZeroed' = TRUE
             /\ mem' = ZeroRegisters(mem)
             /\ pc' = "L177"
             /\ UNCHANGED <<result, reported, ptr, frees, device_free, queue, hashWidth>>
        ELSE /\ registersZeroed' = registersZeroed
             /\ mem' = mem
             /\ Return("false", "Failed to initialize GPU memory for registers!",
                       ptr, frees, device_free)
    /\ UNCHANGED <<mallocs, free_mem, batch_size, templateCopied>>
    /\ UNCHANGED <<loopVars, lastError, deviceFault, launchVars>>
    /\ UNCHANGED <<mainVars, testVars>>

\* Lines 177-182.
AllocTemplate ==
    /\ pc = "L177"
    /\ Construct("blockTemplate", "Failed to allocate GPU memory for block template!", "L184")
    /\ UNCHANGED <<free_mem, batch_size, registersZeroed, templateCopied>>
    /\ UNCHANGED <<loopVars, lastError, deviceFault, launchVars>>
    /\ UNCHANGED <<mainVars, testVars>>
    /\ UNCHANGED mem

\* Lines 184-188: cudaMemcpy of blockTemplate to the device.
CopyTemplate ==
    /\ pc = "L184"
    /\ \E ok \in BOOLEAN :
        IF ok
        THEN /\ templateCopied' = TRUE
             /\ mem' = [mem EXCEPT !["blockTemplate"] = {Template}]
             /\ pc' = "L190"
             /\ UNCHANGED <<result, reported, ptr, frees, device_free, queue, hashWidth>>
        ELSE /\ templateCopied' = templateCopied
             /\ mem' = mem
             /\ Return("false", "Failed to copy block template to GPU", ptr, frees, device_free)
    /\ UNCHANGED <<mallocs, free_mem, batch_size, registersZeroed>>
    /\ UNCHANGED <<loopVars, lastError, deviceFault, launchVars>>
    /\ UNCHANGED <<mainVars, testVars>>

\* Lines 190-201: the second cudaMemGetInfo, then the for statement's
\* initialisation, nonce = 0, k = 0.
GetMemInfoLeft ==
    /\ pc = "L190"
    /\ \E ok \in BOOLEAN :
        IF ok
        THEN /\ free_mem' = device_free
             /\ nonce' = 0
             /\ k' = 0
             /\ pc' = "L201"
             /\ UNCHANGED <<result, reported, ptr, frees, device_free, queue, hashWidth>>
        ELSE /\ UNCHANGED <<free_mem, nonce, k>>
             /\ Return("false", "Failed to get free memory info!", ptr, frees, device_free)
    /\ UNCHANGED <<mallocs, batch_size, registersZeroed, templateCopied, i>>
    /\ UNCHANGED <<lastError, deviceFault, launchVars>>
    /\ UNCHANGED <<mainVars, testVars>>
    /\ UNCHANGED mem

\* ------------------------------------------------ test_mining, lines 201-276
\* <<<batch_size / 32, ...>>>: the number of blocks of every launch.
GridBlocks(lanes) == lanes \div LANE_GROUP

\* Every kernel launched with blocks of 32 threads.
ThreadsPerBlock_Uniform(name) == LANE_GROUP

\* <<<..., 32>>> for the keyed-hash and register kernels, <<<..., 32 * 4>>>
\* for the cipher fill and compress kernels.
ThreadsPerBlock(name) ==
    IF name \in {"fillAes1Rx4", "hashAes1Rx4"} THEN LANE_GROUP * COOPERATING ELSE LANE_GROUP

\* The device buffers a launch passes to its kernel; region is the buffer a
\* fill writes.
BuffersGiven(name, region) ==
    CASE name = "blake2b_initial_hash" -> {"hashes", "blockTemplate"}
      [] name = "fillAes1Rx4" -> {"hashes", region}
      [] name = "initGroupA_registers" -> {"programs", "registers"}
      [] name = "hashAes1Rx4" -> {"scratchpads", "registers"}
      [] name = "blake2b_hash_registers" -> {"hashes", "registers"}
      [] OTHER -> {}

\* How many per-lane regions a buffer of test_mining is allocated for: the
\* four per-lane buffers are batch_size times their per-lane size, the
\* template is one sizeof(blockTemplate), tmp and the dataset are not per lane.
LanesOf(b) ==
    CASE b \in {"scratchpads", "hashes", "programs", "registers"} -> batch_size
      [] b = "blockTemplate" -> 1
      [] OTHER -> 0

\* A kernel launch: the kernel, the region a fill writes, the program round
\* (0 before the rounds), the digest width, the nonce argument, and the
\* launch's grid, block size and buffers.
Kernel(name, region, round, width, base) ==
    [kernel |-> name, region |-> region, round |-> round, width |-> width, base |-> base,
     grid |-> GridBlocks(batch_size), block |-> ThreadsPerBlock(name),
     args |-> BuffersGiven(name, region)]

\* The message of the check that follows a launch of the named kernel.
LaunchFailed(name) ==
    CASE name = "blake2b_initial_hash" -> "blake2b_initial_hash launch failed"
      [] name = "fillAes1Rx4" -> "fillAes1Rx4 launch failed"
      [] name = "hashAes1Rx4" -> "hashAes1Rx4 launch failed"
      [] name = "blake2b_hash_registers" -> "blake2b_hash_registers launch failed"
      [] OTHER -> "no message"

\* kernel<<<...>>>(...): the launch is put on the stream, or fails and leaves
\* the runtime's last error set.
Launch(kern, next) ==
    /\ \E ok \in BOOLEAN :
        IF ok
        THEN /\ queue' = IF deviceFault THEN queue ELSE Append(queue, kern)
             /\ lastError' = lastError
             /\ unconfirmed' = unconfirmed + 1
        ELSE /\ queue' = queue
             /\ lastError' = kern.kernel
             /\ unconfirmed' = unconfirmed
    /\ issued' = Append(issued, kern)
    /\ unchecked' = unchecked + 1
    /\ pc' = next
    /\ UNCHANGED <<result, reported, free_mem, batch_size, registersZeroed, templateCopied>>
    /\ UNCHANGED <<memVars, loopVars, deviceFault, hashWidth>>

\* A check that prints the message and carries on.
CheckLaunch_CarryOn(name, next, round) ==
    /\ unchecked' = 0
    /\ lastError' = "none"
    /\ reported' = IF lastError # "none" THEN LaunchFailed(name) ELSE reported
    /\ pc' = next
    /\ i' = round
    /\ UNCHANGED <<result, ptr, frees, device_free, queue, hashWidth>>
    /\ UNCHANGED <<mallocs, free_mem, batch_size, registersZeroed, templateCopied>>
    /\ UNCHANGED <<nonce, k, deviceFault, issued, unconfirmed>>

\* cudaStatus = cudaGetLastError(); if (cudaStatus != cudaSuccess) { ...; return false; }
\* cudaGetLastError returns the last error and resets it.
CheckLaunch(name, next, round) ==
    /\ unchecked' = 0
    /\ lastError' = "none"
    /\ IF lastError # "none"
       THEN /\ Return("false", LaunchFailed(name), ptr, frees, device_free)
            /\ i' = i
       ELSE /\ pc' = next
            /\ i' = round
            /\ UNCHANGED <<result, reported, ptr, frees, device_free, queue, hashWidth>>
    /\ UNCHANGED <<mallocs, free_mem, batch_size, registersZeroed, templateCopied>>
    /\ UNCHANGED <<nonce, k, deviceFault, issued, unconfirmed>>

\* The branch of line 241 taken in the first round instead of the last.
IsLastRound_First(r) == r = 0

\* Line 241.
IsLastRound(r) == r = PROGRAM_COUNT - 1

\* Lines 228 and 266: where the for statement over i goes with i = r.
RoundOrSync(r) == IF r < PROGRAM_COUNT THEN "L230" ELSE "L268"

\* Line 201, the condition: nonce < 0xFFFFFFFFUL, else line 275, return true.
LoopCondition ==
    /\ pc = "L201"
    /\ IF nonce < NONCE_LIMIT
       THEN /\ pc' = "L214"
            /\ UNCHANGED <<result, reported, ptr, frees, device_free, queue, hashWidth>>
       ELSE Return("true", reported, ptr, frees, device_free)
    /\ UNCHANGED <<mallocs, free_mem, batch_size, registersZeroed, templateCopied>>
    /\ UNCHANGED <<loopVars, lastError, deviceFault, launchVars>>
    /\ UNCHANGED <<mainVars, testVars>>
    /\ UNCHANGED mem

\* A launch that patches the nonce into the device template from the host and
\* hands the kernel no nonce base.
LaunchInitialHash_HostPatched ==
    /\ pc = "L214"
    /\ Launch(Kernel("blake2b_initial_hash", "hashes", 0, WIDE_DIGEST, 0), "L215")
    /\ mem' = [mem EXCEPT !["blockTemplate"] = {Template, NonceTag(nonce)}]
    /\ UNCHANGED <<mainVars, testVars>>

\* Line 214.
LaunchInitialHash ==
    /\ pc = "L214"
    /\ Launch(Kernel("blake2b_initial_hash", "hashes", 0, WIDE_DIGEST, nonce), "L215")
    /\ UNCHANGED <<mainVars, testVars>>
    /\ UNCHANGED mem

\* Lines 215-219.
CheckInitialHash ==
    /\ pc = "L215"
    /\ CheckLaunch("blake2b_initial_hash", "L221", i)
    /\ UNCHANGED <<mainVars, testVars>>
    /\ UNCHANGED mem

\* Line 221.
LaunchFillScratchpads ==
    /\ pc = "L221"
    /\ Launch(Kernel("fillAes1Rx4", "scratchpads", 0, 0, 0), "L222")
    /\ UNCHANGED <<mainVars, testVars>>
    /\ UNCHANGED mem

\* Lines 222-228: the check, then i = 0.
CheckFillScratchpads ==
    /\ pc = "L222"
    /\ CheckLaunch("fillAes1Rx4", RoundOrSync(0), 0)
    /\ UNCHANGED <<mainVars, testVars>>
    /\ UNCHANGED mem

\* Line 230.
LaunchFillPrograms ==
    /\ pc = "L230"
    /\ Launch(Kernel("fillAes1Rx4", "programs", i + 1, 0, 0), "L231")
    /\ UNCHANGED <<mainVars, testVars>>
    /\ UNCHANGED mem

\* Lines 231-235.
CheckFillPrograms ==
    /\ pc = "L231"
    /\ CheckLaunch("fillAes1Rx4", "L237", i)
    /\ UNCHANGED <<mainVars, testVars>>
    /\ UNCHANGED mem

\* Lines 237-241: the launch, no check, the VM still to be written, then the
\* branch on the last round.
LaunchInitRegisters ==
    /\ pc = "L237"
    /\ Launch(Kernel("initGroupA_registers", "registers", i + 1, 0, 0),
              IF IsLastRound(i) THEN "L243" ELSE "L259")
    /\ UNCHANGED <<mainVars, testVars>>
    /\ UNCHANGED mem

\* Line 243.
LaunchCompress ==
    /\ pc = "L243"
    /\ Launch(Kernel("hashAes1Rx4", "registers", i + 1, 0, 0), "L244")
    /\ UNCHANGED <<mainVars, testVars>>
    /\ UNCHANGED mem

\* Lines 244-248.
CheckCompress ==
    /\ pc = "L244"
    /\ CheckLaunch("hashAes1Rx4", "L250", i)
    /\ UNCHANGED <<mainVars, testVars>>
    /\ UNCHANGED mem

\* The last round folding to the wide digest like the others.
FinalFoldWidth_Wide == WIDE_DIGEST

\* Line 250: blake2b_hash_registers<REGISTERS_SIZE, 32>.
FinalFoldWidth == FINAL_DIGEST

\* Line 250.
LaunchFoldFinal ==
    /\ pc = "L250"
    /\ Launch(Kernel("blake2b_hash_registers", "hashes", i + 1, FinalFoldWidth, 0), "L251")
    /\ UNCHANGED <<mainVars, testVars>>
    /\ UNCHANGED mem

\* Lines 251-255, then ++i and the for condition.
CheckFoldFinal ==
    /\ pc = "L251"
    /\ CheckLaunch("blake2b_hash_registers", RoundOrSync(i + 1), i + 1)
    /\ UNCHANGED <<mainVars, testVars>>
    /\ UNCHANGED mem

\* Line 259.
LaunchFoldWide ==
    /\ pc = "L259"
    /\ Launch(Kernel("blake2b_hash_registers", "hashes", i + 1, WIDE_DIGEST, 0), "L260")
    /\ UNCHANGED <<mainVars, testVars>>
    /\ UNCHANGED mem

\* Lines 260-264, then ++i and the for condition.
CheckFoldWide ==
    /\ pc = "L260"
    /\ CheckLaunch("blake2b_hash_registers", RoundOrSync(i + 1), i + 1)
    /\ UNCHANGED <<mainVars, testVars>>
    /\ UNCHANGED mem

\* A synchronize that returns without waiting for the stream.
SyncReady_NoWait == TRUE

\* cudaDeviceSynchronize returns once the stream has drained.
SyncReady == queue = <<>>

\* Lines 268-272.
Synchronize ==
    /\ pc = "L268"
    /\ SyncReady
    /\ IF deviceFault
       THEN /\ Return("false", "cudaDeviceSynchronize returned error code", ptr, frees, device_free)
            /\ unconfirmed' = unconfirmed
       ELSE /\ pc' = "L201inc"
            /\ unconfirmed' = 0
            /\ UNCHANGED <<result, reported, ptr, frees, device_free, queue, hashWidth>>
    /\ UNCHANGED <<mallocs, free_mem, batch_size, registersZeroed, templateCopied>>
    /\ UNCHANGED <<loopVars, lastError, deviceFault, issued, unchecked>>
    /\ UNCHANGED <<mainVars, testVars>>
    /\ UNCHANGED mem

\* An addition that stops at 0xFFFFFFFF instead of wrapping.
AddU32_Saturating(a, b) == IF a + b >= U32 THEN NONCE_LIMIT ELSE a + b

\* uint32_t addition.
AddU32(a, b) == (a + b) % U32

\* The increment advancing the nonce by the number of blocks, not of lanes.
LoopIncrement_ByBlocks ==
    /\ pc = "L201inc"
    /\ k < MaxBatches
    /\ nonce' = AddU32(nonce, batch_size \div LANE_GROUP)
    /\ k' = AddU32(k, 1)
    /\ issued' = <<>>
    /\ pc' = "L201"
    /\ UNCHANGED <<result, reported, free_mem, batch_size, registersZeroed, templateCopied, i>>
    /\ UNCHANGED <<memVars, deviceVars, unchecked, unconfirmed>>
    /\ UNCHANGED <<mainVars, testVars>>
    /\ UNCHANGED mem

\* Line 201, the increment: nonce += batch_size, ++k.  The batch is over:
\* issued starts again.  The model follows MaxBatches increments.
LoopIncrement ==
    /\ pc = "L201inc"
    /\ k < MaxBatches
    /\ nonce' = AddU32(nonce, batch_size)
    /\ k' = AddU32(k, 1)
    /\ issued' = <<>>
    /\ pc' = "L201"
    /\ UNCHANGED <<result, reported, free_mem, batch_size, registersZeroed, templateCopied, i>>
    /\ UNCHANGED <<memVars, deviceVars, unchecked, unconfirmed>>
    /\ UNCHANGED <<mainVars, testVars>>
    /\ UNCHANGED mem

\* ------------------------------------------------------------- the device
\* The device runs the kernel at the head of the stream.
DeviceRun ==
    /\ queue # <<>>
    /\ ~deviceFault
    /\ queue' = Tail(queue)
    /\ hashWidth' = HashWidthAfter(Head(queue), hashWidth)
    /\ mem' = MemAfter(Head(queue), mem)
    /\ UNCHANGED <<pc, result, reported, free_mem, batch_size, registersZeroed, templateCopied>>
    /\ UNCHANGED <<memVars, loopVars, lastError, deviceFault, launchVars>>
    /\ UNCHANGED <<mainVars, testVars>>

\* The kernel at the head of the stream faults; the rest of the stream is lost.
DeviceFaults ==
    /\ queue # <<>>
    /\ ~deviceFault
    /\ deviceFault' = TRUE
    /\ queue' = <<>>
    /\ UNCHANGED <<pc, result, reported, free_mem, batch_size, registersZeroed, templateCopied>>
    /\ UNCHANGED <<memVars, loopVars, lastError, hashWidth, launchVars>>
    /\ UNCHANGED <<mainVars, testVars>>
    /\ UNCHANGED mem

Next ==
    \/ AllocTmp
    \/ GetMemInfo
    \/ CheckFreeMem
    \/ PlanBatchSize
    \/ AllocDataset
    \/ AllocScratchpads
    \/ AllocHashes
    \/ AllocPrograms
    \/ AllocRegisters
    \/ MemsetRegisters
    \/ AllocTemplate
    \/ CopyTemplate
    \/ GetMemInfoLeft
    \/ LoopCondition
    \/ LaunchInitialHash
    \/ CheckInitialHash
    \/ LaunchFillScratchpads
    \/ CheckFillScratchpads
    \/ LaunchFillPrograms
    \/ CheckFillPrograms
    \/ LaunchInitRegisters
    \/ LaunchCompress
    \/ CheckCompress
    \/ LaunchFoldFinal
    \/ CheckFoldFinal
    \/ LaunchFoldWide
    \/ CheckFoldWide
    \/ Synchronize
    \/ LoopIncrement
    \/ DeviceRun
    \/ DeviceFaults

Spec == Init /\ [][Next]_vars

NextPlan ==
    \/ AllocTmp
    \/ GetMemInfo
    \/ CheckFreeMem
    \/ PlanBatchSize
    \/ AllocDataset
    \/ AllocScratchpads

SpecPlan == InitPlan /\ [][NextPlan]_vars

\* --------------------------------------------------------- main, lines 36-71
Modes == {"usage", "mine", "test", "other"}

\* Lines 38-43: argc < 3 prints the usage and returns 0.
MainUsage ==
    /\ pc = "M38"
    /\ IF mode = "usage"
       THEN pc' = "exited" /\ exitStatus' = 0
       ELSE pc' = "M47" /\ exitStatus' = exitStatus
    /\ UNCHANGED <<mode, mainError, testVars, mem>>
    /\ UNCHANGED <<result, reported, free_mem, batch_size, registersZeroed, templateCopied>>
    /\ UNCHANGED <<memVars, loopVars, deviceVars, launchVars>>

\* A device selection whose failure is printed and then ignored.
MainSetDevice_CarryOn ==
    /\ pc = "M47"
    /\ \E ok \in BOOLEAN :
        mainError' = IF ok THEN mainError ELSE "cudaSetDevice failed!"
    /\ pc' = "M59"
    /\ UNCHANGED <<mode, exitStatus, testVars, mem>>
    /\ UNCHANGED <<result, reported, free_mem, batch_size, registersZeroed, templateCopied>>
    /\ UNCHANGED <<memVars, loopVars, deviceVars, launchVars>>

\* Lines 45-52: cudaSetDevice(device_id); a failure is printed and main
\* returns 1.
MainSetDevice ==
    /\ pc = "M47"
    /\ \E ok \in BOOLEAN :
        IF ok
        THEN pc' = "M59" /\ UNCHANGED <<exitStatus, mainError>>
        ELSE /\ mainError' = "cudaSetDevice failed!"
             /\ exitStatus' = 1
             /\ pc' = "exited"
    /\ UNCHANGED <<mode, testVars, mem>>
    /\ UNCHANGED <<result, reported, free_mem, batch_size, registersZeroed, templateCopied>>
    /\ UNCHANGED <<memVars, loopVars, deviceVars, launchVars>>

\* Lines 59-62: --mine calls test_mining, --test calls tests, anything else
\* calls neither.
MainDispatch ==
    /\ pc = "M59"
    /\ pc' = CASE mode = "mine" -> "L108"
              [] mode = "test" -> "T293"
              [] OTHER -> "M64"
    /\ UNCHANGED <<mainVars, testVars, mem>>
    /\ UNCHANGED <<result, reported, free_mem, batch_size, registersZeroed, templateCopied>>
    /\ UNCHANGED <<memVars, loopVars, deviceVars, launchVars>>

\* A main that returns 1 as well when the mode function reported a failure.
MainReset_FromResult ==
    /\ pc \in {"M64", "returned"}
    /\ \E ok \in BOOLEAN :
        /\ exitStatus' = IF ok /\ result # "false" /\ reported = "none" THEN 0 ELSE 1
        /\ mainError' = IF ok THEN mainError ELSE "cudaDeviceReset failed!"
    /\ pc' = "exited"
    /\ UNCHANGED <<mode, testVars, mem>>
    /\ UNCHANGED <<result, reported, free_mem, batch_size, registersZeroed, templateCopied>>
    /\ UNCHANGED <<memVars, loopVars, deviceVars, launchVars>>

\* Lines 64-70: cudaDeviceReset, after the mode function has returned (its
\* return value is not looked at); main returns 1 if the reset fails, else 0.
MainReset ==
    /\ pc \in {"M64", "returned"}
    /\ \E ok \in BOOLEAN :
        /\ exitStatus' = IF ok THEN 0 ELSE 1
        /\ mainError' = IF ok THEN mainError ELSE "cudaDeviceReset failed!"
    /\ pc' = "exited"
    /\ UNCHANGED <<mode, testVars, mem>>
    /\ UNCHANGED <<result, reported, free_mem, batch_size, registersZeroed, templateCopied>>
    /\ UNCHANGED <<memVars, loopVars, deviceVars, launchVars>>

\* ------------------------------------------------- tests(), lines 278-707
\* The comparison loops run over TestLanes lanes (NUM_SCRATCHPADS_TEST, scaled
\* down), a scratchpad is ScratchChunks chunks of 64 bytes and a program is
\* ProgChunks chunks.
TestScratchBytes == ScratchChunks * CHUNK
TestProgramBytes == ProgChunks * CHUNK

\* What can be wrong with the kernels under test: nothing, or the output of
\* one of them differs from the sequential reference.
Defects == {"none", "initialHash", "scratchState", "scratchData", "programState",
            "programData", "compress", "fold32", "fold64"}

\* The content of a 64-byte chunk: chunk c of lane l of the reference stream,
\* or bytes that belong to no lane.
ChunkOf(l, c) == <<l, c>>
Garbage == <<-1, -1>>

\* return; with the destructors of tests()'s GPUPtr objects.
TestReturn(message) == Return("void", message, ptr, frees, device_free)

\* GPUPtr x(size); if (!x) { fprintf(stderr, message); return; }
TestConstruct(b, message, next) ==
    \E ok \in BOOLEAN :
        /\ ok => SizeOf(b) <= device_free
        /\ IF ok
           THEN /\ ptr' = [ptr EXCEPT ![b] = "valid"]
                /\ mallocs' = [mallocs EXCEPT ![b] = @ + 1]
                /\ device_free' = device_free - SizeOf(b)
                /\ pc' = next
                /\ UNCHANGED <<result, reported, frees, queue, hashWidth>>
           ELSE /\ mallocs' = mallocs
                /\ Return("void", message, [ptr EXCEPT ![b] = "null"], frees, device_free)

\* One of the allocations of lines 293-326.
TestAlloc(at, b, message, next) ==
    /\ pc = at
    /\ TestConstruct(b, message, next)
    /\ UNCHANGED <<mainVars, testVars, miningVars>>

AllocHashGpu == TestAlloc("T293", "hash_gpu", "cudaMalloc failed!", "T299")
AllocBlockTemplateGpu == TestAlloc("T299", "block_template_gpu", "cudaMalloc failed!", "T305")
AllocNonceGpu == TestAlloc("T305", "nonce_gpu", "cudaMalloc failed!", "T311")
\* Lines 311-314 return without a message.
AllocStatesGpu == TestAlloc("T311", "states_gpu", reported, "T316")
AllocScratchpadsGpu == TestAlloc("T316", "scratchpads_gpu", "cudaMalloc failed!", "T322")
AllocProgramsGpu == TestAlloc("T322", "programs_gpu", "cudaMalloc failed!", "T328")

\* Lines 328-332: registers_gpu is never written by the host, so its bytes
\* are whatever cudaMalloc returned, zero or not.
FreshRegisters == {"zero", "junk"}

AllocRegistersGpu ==
    /\ pc = "T328"
    /\ TestConstruct("registers_gpu", "cudaMalloc failed!", "T334")
    /\ \E low \in FreshRegisters, out \in FreshRegisters :
           dRegs' = [low |-> low, out |-> out]
    /\ UNCHANGED <<mainVars, miningVars>>
    /\ UNCHANGED <<defect, passed, ti, reads, dScratch, dProgs>>

\* A step of tests() that only succeeds or ends tests() with a message.
TestStep(at, next, errors) ==
    /\ pc = at
    /\ \E e \in {"ok"} \cup errors :
        IF e = "ok"
        THEN pc' = next /\ UNCHANGED returnVars
        ELSE TestReturn(e)
    /\ UNCHANGED <<mallocs, mainVars, miningVars>>

SyncFailed == "cudaDeviceSynchronize returned error code"
CopyFailed == "cudaMemcpy failed!"
FoldLaunchFailed == "blake2b_hash_registers launch failed"

\* Lines 334-338.
CopyTemplateTest ==
    /\ TestStep("T334", "T341", {CopyFailed})
    /\ UNCHANGED testVars

\* A comparison whose mismatch is reported and tests() goes on to the next test.
CompareWhole_CarryOn(at, next, wrong, name, message) ==
    /\ pc = at
    /\ pc' = next
    /\ reported' = IF wrong THEN message ELSE reported
    /\ passed' = IF wrong THEN passed ELSE Append(passed, name)
    /\ UNCHANGED <<result, ptr, frees, device_free, queue, hashWidth>>
    /\ UNCHANGED <<mallocs, mainVars, miningVars>>
    /\ UNCHANGED <<defect, ti, reads, dScratch, dProgs, dRegs>>

\* A comparison of whole arrays: the test's line is printed or tests() returns.
CompareWhole(at, next, wrong, name, message) ==
    /\ pc = at
    /\ IF wrong
       THEN TestReturn(message) /\ passed' = passed
       ELSE pc' = next /\ passed' = Append(passed, name) /\ UNCHANGED returnVars
    /\ UNCHANGED <<mallocs, mainVars, miningVars>>
    /\ UNCHANGED <<defect, ti, reads, dScratch, dProgs, dRegs>>

\* Lines 341-353: launch, synchronize, copy the hashes back.
RunInitialHash ==
    /\ TestStep("T341", "T355", {SyncFailed, CopyFailed})
    /\ UNCHANGED testVars

\* Lines 355-367.
CompareInitialHash ==
    CompareWhole("T355", "T371", defect = "initialHash", "blake2b_initial_hash",
                 "blake2b_initial_hash test failed!")

\* Where fillAes1Rx4<SCRATCHPAD_SIZE, true> stores chunk c of lane l when it
\* fills n lanes: the chunks of one offset of all lanes lie side by side.
InterleavedAt(l, c, n) == c * n + l

\* Where the harness expects chunk c of lane l of fillAes1Rx4<PROGRAM_SIZE,
\* false>, line 447: lane after lane, each lane's chunks in order.
ContiguousAt(l, c, chunks) == l * chunks + c

\* The scratchpads of n lanes as a sound interleaving fill leaves them: at
\* physical chunk p, the chunk of the reference stream that is stored there.
FilledInterleaved(n, chunks) ==
    [p \in 0..(n * chunks - 1) |->
        CHOOSE lc \in (0..(n - 1)) \X (0..(chunks - 1)) :
            InterleavedAt(lc[1], lc[2], n) = p]

\* The programs of n lanes as the fill that passes line 447 leaves them.
FilledContiguous(n, chunks) ==
    [p \in 0..(n * chunks - 1) |->
        CHOOSE lc \in (0..(n - 1)) \X (0..(chunks - 1)) :
            ContiguousAt(lc[1], lc[2], chunks) = p]

\* The outputs of a defective fill: one chunk is not what the reference has.
Corrupted(f) == {[f EXCEPT ![p] = Garbage] : p \in DOMAIN f}

\* The chunk the harness finds at a byte offset of a buffer copied back.
ChunkAtOffset(f, off) ==
    IF off % CHUNK = 0 /\ (off \div CHUNK) \in DOMAIN f THEN f[off \div CHUNK] ELSE Garbage

Min(S) == CHOOSE x \in S : \A y \in S : x <= y

\* One iteration of a per-lane comparison loop: the lane's hash state is
\* compared, then its data; the first difference ends tests(), the last lane
\* prints the test's line.
CompareLane(at, next, stateBad, stateMessage, rd, dataBad, dataMessage, name) ==
    /\ pc = at
    /\ ti < TestLanes
    /\ IF stateBad
       THEN TestReturn(stateMessage) /\ UNCHANGED <<reads, ti, passed>>
       ELSE /\ reads' = reads \cup rd
            /\ IF dataBad
               THEN TestReturn(dataMessage) /\ UNCHANGED <<ti, passed>>
               ELSE /\ UNCHANGED returnVars
                    /\ IF ti + 1 < TestLanes
                       THEN pc' = at /\ ti' = ti + 1 /\ passed' = passed
                       ELSE pc' = next /\ ti' = 0 /\ passed' = Append(passed, name)
    /\ UNCHANGED <<mallocs, mainVars, miningVars>>
    /\ UNCHANGED <<defect, dScratch, dProgs, dRegs>>

\* Lines 371-389: fill the scratchpads, synchronize, copy state and
\* scratchpads back.
RunFillScratchpads ==
    /\ TestStep("T371", "T391", {SyncFailed, CopyFailed})
    /\ LET good == FilledInterleaved(TestLanes, ScratchChunks)
       IN dScratch' \in IF defect = "scratchData" THEN Corrupted(good) ELSE {good}
    /\ ti' = 0
    /\ UNCHANGED <<defect, passed, reads, dProgs, dRegs>>

\* An offset that takes lane i's scratchpad to lie in one piece.
ScratchOffset_Contiguous(lane, j) == lane * TestScratchBytes + j

\* Lines 401-405: p1 = scratchpads.data() + i * 64, compared at
\* p1 + j * NUM_SCRATCHPADS_TEST for j = 0, 64, 128, ...
ScratchOffset(lane, j) == lane * CHUNK + j * TestLanes

\* Lines 391-411, one lane.
CompareScratchpadLane ==
    LET bad == {c \in 0..(ScratchChunks - 1) :
                   ChunkAtOffset(dScratch, ScratchOffset(ti, c * CHUNK)) # ChunkOf(ti, c)}
        last == IF bad = {} THEN ScratchChunks - 1 ELSE Min(bad)
    IN CompareLane("T391", "T417",
                   defect = "scratchState", "fillAes1Rx4 test (hash) failed!",
                   {<<"scratchpads", ti, c, ScratchOffset(ti, c * CHUNK)>> : c \in 0..last},
                   bad # {}, "fillAes1Rx4 test (scratchpad) failed!",
                   "fillAes1Rx4 (scratchpads)")

\* Lines 417-435: fill the programs, synchronize, copy state and programs back.
RunFillPrograms ==
    /\ TestStep("T417", "T437", {SyncFailed, CopyFailed})
    /\ LET good == FilledContiguous(TestLanes, ProgChunks)
       IN dProgs' \in IF defect = "programData" THEN Corrupted(good) ELSE {good}
    /\ ti' = 0
    /\ UNCHANGED <<defect, passed, reads, dScratch, dRegs>>

\* An offset that undoes the scratchpad's interleave on the programs.
ProgramOffset_Interleaved(lane, j) == lane * CHUNK + j * TestLanes

\* Line 447: memcmp(programs.data() + i * PROGRAM_SIZE, ..., PROGRAM_SIZE),
\* byte j of lane i's program.
ProgramOffset(lane, j) == lane * TestProgramBytes + j

\* Lines 437-452, one lane.
CompareProgramLane ==
    LET bad == {c \in 0..(ProgChunks - 1) :
                   ChunkAtOffset(dProgs, ProgramOffset(ti, c * CHUNK)) # ChunkOf(ti, c)}
    IN CompareLane("T437", "T458",
                   defect = "programState", "fillAes1Rx4 test (hash) failed!",
                   {<<"programs", ti, c, ProgramOffset(ti, c * CHUNK)>> : c \in 0..(ProgChunks - 1)},
                   bad # {}, "fillAes1Rx4 test (program) failed!",
                   "fillAes1Rx4 (programs)")

\* What hashAes1Rx4<SCRATCHPAD_SIZE, 192, REGISTERS_SIZE> leaves in the
\* register file: its output in the bytes from 192 on, the bytes below as
\* they were.
Compressed(regs, sound) ==
    [regs EXCEPT !.out = IF sound THEN "compress" ELSE "wrong"]

\* Lines 458-470: compress the scratchpads into registers_gpu, synchronize,
\* copy the registers back.
RunCompress ==
    /\ TestStep("T458", "T472", {SyncFailed, CopyFailed})
    /\ dRegs' = Compressed(dRegs, defect # "compress")
    /\ ti' = 0
    /\ UNCHANGED <<defect, passed, reads, dScratch, dProgs>>

\* The device registers differ from registers2: zero below 192 (line 291),
\* the reference compress output from 192 on (line 474).
RegistersDiffer == dRegs.low # "zero" \/ dRegs.out # "compress"

\* Lines 472-481, one lane: all REGISTERS_SIZE bytes of the lane are compared.
CompareRegistersLane ==
    CompareLane("T472", "T487", FALSE, "none",
                {<<"registers", ti, 0, 0>>},
                RegistersDiffer, "hashAes1Rx4 test failed!", "hashAes1Rx4")

\* Lines 487-498: the 32-byte fold of registers_gpu, launch check, copy back.
RunFold32 ==
    /\ TestStep("T487", "T500", {FoldLaunchFailed, CopyFailed})
    /\ UNCHANGED testVars

\* Lines 500-511: against blake2b of registers2.
CompareFold32 ==
    CompareWhole("T500", "T515", defect = "fold32" \/ RegistersDiffer,
                 "blake2b_hash_registers (32 byte hash)",
                 "blake2b_hash_registers (32 byte hash) test failed!")

\* Lines 515-526.
RunFold64 ==
    /\ TestStep("T515", "T528", {FoldLaunchFailed, CopyFailed})
    /\ UNCHANGED testVars

\* Lines 528-539.
CompareFold64 ==
    CompareWhole("T528", "T542", defect = "fold64" \/ RegistersDiffer,
                 "blake2b_hash_registers (64 byte hash)",
                 "blake2b_hash_registers (64 byte hash) test failed!")

\* Lines 542-707: the four benchmark loops; tests() returns when they are
\* done or at the first launch, synchronize or copy that fails.
Benchmarks ==
    /\ pc = "T542"
    /\ \E e \in {reported, "fillAes1Rx4 launch failed", "hashAes1Rx4 launch failed",
                 SyncFailed, CopyFailed} :
           TestReturn(e)
    /\ UNCHANGED <<mallocs, mainVars, miningVars, testVars>>

NextTests ==
    \/ AllocHashGpu
    \/ AllocBlockTemplateGpu
    \/ AllocNonceGpu
    \/ AllocStatesGpu
    \/ AllocScratchpadsGpu
    \/ AllocProgramsGpu
    \/ AllocRegistersGpu
    \/ CopyTemplateTest
    \/ RunInitialHash
    \/ CompareInitialHash
    \/ RunFillScratchpads
    \/ CompareScratchpadLane
    \/ RunFillPrograms
    \/ CompareProgramLane
    \/ RunCompress
    \/ CompareRegistersLane
    \/ RunFold32
    \/ CompareFold32
    \/ RunFold64
    \/ CompareFold64
    \/ Benchmarks

\* tests() entered, with kernels that are sound or have one defect.
InitTests ==
    /\ Fresh
    /\ pc = "T293"
    /\ device_free \in FreeTests
    /\ mode = "test"
    /\ defect \in Defects

SpecTests == InitTests /\ [][NextTests]_vars

\* ------------------------------------------------------- the whole program
InitMain ==
    /\ Fresh
    /\ pc = "M38"
    /\ mode \in Modes
    /\ device_free \in (IF mode = "test" THEN FreeTests ELSE FreeCoarse)
    /\ defect \in (IF mode = "test" THEN Defects ELSE {"none"})

NextMain ==
    \/ MainUsage
    \/ MainSetDevice
    \/ MainDispatch
    \/ MainReset
    \/ Next
    \/ NextTests

SpecMain == InitMain /\ [][NextMain]_vars

\* ------------------------------------------------- the keyed-hash kernel
\* The nonce lane `lane` of blake2b_initial_hash writes into its copy of the
\* template: the nonce argument plus the lane index, a uint32_t.
LaneNonce(base, lane) == (base + lane) % U32

\* ----------------------------------------------------------------- claims
KernelsPerBatch == 2 + 3 * PROGRAM_COUNT + 1

\* The pipeline stage a launch belongs to.
StageOf(kern) ==
    CASE kern.kernel = "blake2b_initial_hash" -> "initial_hash"
      [] kern.kernel = "fillAes1Rx4" /\ kern.region = "scratchpads" -> "scratchpad_fill"
      [] kern.kernel = "fillAes1Rx4" /\ kern.region = "programs" -> "program_fill"
      [] kern.kernel = "initGroupA_registers" -> "register_init"
      [] kern.kernel = "hashAes1Rx4" -> "compress"
      [] kern.kernel = "blake2b_hash_registers" -> "register_fold"
      [] OTHER -> "unknown"

IsCompress(kern) == kern.kernel = "hashAes1Rx4"
IsFold(kern) == kern.kernel = "blake2b_hash_registers"
NotCompress(kern) == ~IsCompress(kern)

\* The stage the protocol has at place j of a batch: initial hash, scratchpad
\* fill, then per round program fill, register initialization, VM, fold.
ProtocolStage(j) ==
    CASE j = 1 -> "initial_hash"
      [] j = 2 -> "scratchpad_fill"
      [] j > 2 /\ (j - 3) % 4 = 0 -> "program_fill"
      [] j > 2 /\ (j - 3) % 4 = 1 -> "register_init"
      [] j > 2 /\ (j - 3) % 4 = 2 -> "vm"
      [] OTHER -> "register_fold"

\* The same without the VM stage, which test_mining does not launch.
CodedStage(j) ==
    CASE j = 1 -> "initial_hash"
      [] j = 2 -> "scratchpad_fill"
      [] j > 2 /\ (j - 3) % 3 = 0 -> "program_fill"
      [] j > 2 /\ (j - 3) % 3 = 1 -> "register_init"
      [] OTHER -> "register_fold"

BatchLaunched == pc \in {"L268", "L201inc"}

\* C1: in every batch the kernels are issued in the order initial hash,
\* scratchpad fill, then PROGRAM_COUNT times program fill, register
\* initialization, VM stage, register fold (the compress of the last round
\* set aside), none skipped, repeated or reordered, and the batch is
\* finalized only after the last fold.
C1_ProtocolOrder ==
    LET st == SelectSeq(issued, NotCompress) IN
    /\ Len(st) <= 2 + 4 * PROGRAM_COUNT
    /\ \A j \in 1..Len(st) : StageOf(st[j]) = ProtocolStage(j)
    /\ BatchLaunched => Len(st) = 2 + 4 * PROGRAM_COUNT

\* What test_mining does instead: the same order with no VM stage in it.
IssuedOrderAsCoded ==
    LET st == SelectSeq(issued, NotCompress) IN
    /\ Len(st) <= 2 + 3 * PROGRAM_COUNT
    /\ \A j \in 1..Len(st) : StageOf(st[j]) = CodedStage(j)
    /\ BatchLaunched => Len(st) = 2 + 3 * PROGRAM_COUNT

\* C2, as claimed: never are two kernels issued and not confirmed complete.
C2_OneKernelUnconfirmed == unconfirmed <= 1

\* C2, amended: completion is confirmed once per batch.  The first kernel of
\* a batch is issued only when every kernel issued before has run and has
\* been confirmed by cudaDeviceSynchronize; within a batch up to all of its
\* kernels are issued and unconfirmed, and the stream holds only such kernels.
C2_BarrierPerBatch ==
    /\ pc \in {"L201inc", "L201", "L214"} => (queue = <<>> /\ unconfirmed = 0)
    /\ Len(queue) <= unconfirmed
    /\ unconfirmed <= KernelsPerBatch

C2_WholeBatchUnconfirmed ==
    /\ pc = "L268"
    /\ k = 1
    /\ unconfirmed = KernelsPerBatch
    /\ Len(queue) = KernelsPerBatch

\* C3: once a check has reported an error no kernel is launched, nothing is
\* issued again, the nonce and k stay, and test_mining has returned false.
C3_FailFast ==
    [][/\ reported' # "none" => (pc' = "returned" /\ result' = "false")
       /\ reported # "none" => /\ issued' = issued
                               /\ Len(queue') <= Len(queue)
                               /\ unconfirmed' = unconfirmed
                               /\ unchecked' = unchecked
                               /\ nonce' = nonce
                               /\ k' = k]_vars

C3_LaunchFailedInLaterBatch ==
    /\ pc = "returned"
    /\ result = "false"
    /\ reported = LaunchFailed("fillAes1Rx4")
    /\ k = 2
    /\ nonce = AddU32(batch_size, batch_size)
    /\ Len(issued) = 3

\* C4: every launch has been checked by cudaGetLastError before the next
\* launch is issued.
C4_EveryLaunchChecked == unchecked <= 1

\* C5: the run either stops with "Not enough free GPU memory!" (or earlier)
\* before a batch size is planned, or the planned batch size is a positive
\* multiple of 32; no allocation is made with batch size 0.
C5_PositiveMultiple ==
    /\ (pc = "L129" \/ ptr["dataset"] # "unborn") =>
           /\ batch_size > 0
           /\ batch_size % LANE_GROUP = 0
    /\ (pc = "returned" /\ ptr["dataset"] = "unborn") =>
           /\ reported \in {"Not enough free GPU memory!", "Failed to get free memory info!"}
           /\ batch_size = 0

C5_SmallestBatch ==
    /\ pc = "L140"
    /\ batch_size = LANE_GROUP
    /\ free_mem = DATASET_SIZE + HEADROOM + MIN_SCRATCHPADS * SCRATCHPAD_SIZE + 1

\* C6: the planned batch is the largest that fits: dataset, headroom and
\* batch_size scratchpads fit into the free memory, and 32 scratchpads more
\* do not.
C6_LargestFit ==
    (pc = "L129" \/ ptr["dataset"] # "unborn") =>
        /\ DATASET_SIZE + HEADROOM + batch_size * SCRATCHPAD_SIZE <= free_mem
        /\ DATASET_SIZE + HEADROOM + (batch_size + LANE_GROUP) * SCRATCHPAD_SIZE > free_mem

C6_SlackBelowOneGroup ==
    /\ pc = "L140"
    /\ batch_size = 2 * LANE_GROUP
    /\ free_mem = DATASET_SIZE + HEADROOM + (batch_size + LANE_GROUP) * SCRATCHPAD_SIZE - 1

\* C7: the nonce base is k * batch_size modulo 2^32 in batch k, and lane
\* lane of that batch's initial hash gets nonce (k * batch_size + lane)
\* modulo 2^32.
C7_NonceWindows ==
    /\ nonce = (k * batch_size) % U32
    /\ \A j \in 1..Len(issued) :
           issued[j].kernel = "blake2b_initial_hash" =>
               \A lane \in 0..(batch_size - 1) :
                   LaneNonce(issued[j].base, lane) = (k * batch_size + lane) % U32

C7_WindowAfterWrap ==
    /\ pc = "L215"
    /\ k * batch_size > U32
    /\ nonce > 0
    /\ issued[1].base = nonce

\* C8: the compress is issued once per batch, in the last round only, right
\* after that round's register initialization (where the VM is to run) and
\* right before that round's fold.
C8_CompressOnce ==
    LET at == {j \in 1..Len(issued) : IsCompress(issued[j])} IN
    /\ Cardinality(at) <= 1
    /\ \A j \in at :
           /\ issued[j].round = PROGRAM_COUNT
           /\ j > 1
           /\ StageOf(issued[j - 1]) = "register_init"
           /\ issued[j - 1].round = PROGRAM_COUNT
           /\ j < Len(issued) => (IsFold(issued[j + 1]) /\ issued[j + 1].round = PROGRAM_COUNT)
    /\ \A j \in 1..Len(issued) :
           (IsFold(issued[j]) /\ issued[j].round = PROGRAM_COUNT) =>
               (j > 1 /\ IsCompress(issued[j - 1]))
    /\ BatchLaunched => Cardinality(at) = 1

C8_CompressedInSecondBatch ==
    /\ pc = "L268"
    /\ k = 1
    /\ \E j \in 1..Len(issued) : IsCompress(issued[j])
    /\ queue = <<>>
    /\ ~deviceFault

\* C9: one fold per round, 64 bytes wide in all rounds but the last and 32
\* in the last; a fill finds a 64-byte digest as its seed, and a finished
\* batch leaves the 32-byte digest.
C9_FoldWidths ==
    LET folds == SelectSeq(issued, IsFold) IN
    /\ Len(folds) <= PROGRAM_COUNT
    /\ \A j \in 1..Len(folds) :
           /\ folds[j].round = j
           /\ folds[j].width = IF j = PROGRAM_COUNT THEN 32 ELSE 64
    /\ pc \in {"L230", "L231", "L237", "L243", "L244", "L250", "L259"} => Len(folds) = i
    /\ pc \in {"L251", "L260"} => Len(folds) = i + 1
    /\ BatchLaunched => Len(folds) = PROGRAM_COUNT
    /\ (queue # <<>> /\ Head(queue).kernel = "fillAes1Rx4") => hashWidth = 64
    /\ pc = "L201inc" => hashWidth = 32

C9_BatchFinalized ==
    /\ pc = "L201inc"
    /\ k = 1
    /\ hashWidth = 32
    /\ Len(SelectSeq(issued, IsFold)) = PROGRAM_COUNT

\* C10: when test_mining has returned, every buffer cudaMalloc gave has been
\* given to cudaFree once, and no buffer cudaMalloc refused has been; no
\* buffer is freed twice or before it is allocated.
C10_ReleasedOnce ==
    /\ \A b \in Buffers : frees[b] <= mallocs[b] /\ mallocs[b] <= 1
    /\ pc = "returned" =>
           \A b \in Buffers : /\ frees[b] = mallocs[b]
                              /\ ptr[b] \in {"unborn", "dead"}

C10_AbortAfterThreeBuffers ==
    /\ pc = "returned"
    /\ result = "false"
    /\ reported = "Failed to allocate GPU memory for programs!"
    /\ mallocs["programs"] = 0
    /\ frees["programs"] = 0
    /\ \A b \in {"dataset", "scratchpads", "hashes"} : mallocs[b] = 1 /\ frees[b] = 1

\* C20: the search loop never ends on its own.  The nonce base is a multiple
\* of 32 whenever the loop condition is evaluated and in every other state, so
\* it never equals 0xFFFFFFFF, across wrap-around too; test_mining never
\* returns true, and once it has returned it has returned false.
C20_NeverEndsOnItsOwn ==
    /\ nonce % LANE_GROUP = 0
    /\ nonce # NONCE_LIMIT
    /\ result # "true"
    /\ pc = "returned" => result = "false"

\* The loop condition has held again after the nonce base wrapped past 2^32.
C20_SearchGoesOnAfterWrap ==
    /\ pc = "L214"
    /\ k > 0
    /\ k * batch_size >= U32
    /\ nonce < batch_size

\* The run buffers of test_mining: every GPUPtr but the 256-byte tmp of line 108.
RunBuffers == Buffers \ {"tmp"}

\* C19 as stated: when the free memory measured is not above dataset plus
\* headroom the run ends with the insufficient-memory error and no device
\* allocation was made before it.
C19_AbortBeforeAnyAllocation ==
    (/\ pc = "returned"
     /\ reported # "Failed to get free memory info!"
     /\ free_mem <= DATASET_SIZE + HEADROOM) =>
        /\ reported = "Not enough free GPU memory!"
        /\ \A b \in Buffers : mallocs[b] = 0

\* C19, amended: once cudaMemGetInfo has measured free memory that is not
\* above dataset plus headroom, the run has ended with the insufficient-memory
\* error; at that exit no run buffer was ever allocated, the only allocation
\* made is the tmp of line 108, already freed when the memory was tested, and
\* nothing is held: all the device's memory is free again.
C19_AbortHoldsNothing ==
    /\ (/\ pc \notin {"L108", "L109", "L121"}
        /\ reported # "Failed to get free memory info!"
        /\ free_mem <= DATASET_SIZE + HEADROOM)
       => (pc = "returned" /\ result = "false" /\ reported = "Not enough free GPU memory!")
    /\ reported = "Not enough free GPU memory!" =>
        /\ \A b \in RunBuffers : mallocs[b] = 0 /\ ptr[b] = "unborn"
        /\ ptr["tmp"] = "dead"
        /\ mallocs["tmp"] <= 1
        /\ frees["tmp"] = mallocs["tmp"]
        /\ device_free = free_mem
    /\ pc = "L121" => ptr["tmp"] = "dead" /\ frees["tmp"] = mallocs["tmp"]

\* The run aborted for memory not above dataset plus headroom, after tmp had
\* been allocated and freed.
C19_AbortedAfterProbe ==
    /\ reported = "Not enough free GPU memory!"
    /\ free_mem > 0
    /\ free_mem <= DATASET_SIZE + HEADROOM
    /\ mallocs["tmp"] = 1
    /\ frees["tmp"] = 1

\* C12: at the start of every batch, before its first program round, every
\* byte of the register file is zero.
C12_ZeroAtBatchStart ==
    pc = "L214" => (mem["regLow"] = {Zero} /\ mem["regOut"] = {Zero})

\* C16: the device copy of the template is written once, by the host's copy
\* of line 184, while no kernel has been launched yet, and holds the host's
\* template unchanged from then on: no kernel writes it and the host does not
\* patch it (no write per batch at all).  The nonce reaches the keyed hash as
\* its nonce-base argument, the loop's nonce, and the hashes of a completed
\* batch are computed from the template and that base.
C16_TemplateReadOnly ==
    /\ templateCopied => mem["blockTemplate"] = {Template}
    /\ ~templateCopied =>
        /\ mem["blockTemplate"] = {Uninit}
        /\ issued = <<>> /\ queue = <<>> /\ unconfirmed = 0
    /\ \A j \in 1..Len(issued) :
           issued[j].kernel = "blake2b_initial_hash" => issued[j].base = nonce
    /\ pc = "L201inc" => {Template, NonceTag(nonce)} \subseteq mem["hashes"]

\* The second batch has completed on the template as first copied, with its
\* own nonce base in its hashes.
C16_SecondBatchOnSameTemplate ==
    /\ pc = "L201inc"
    /\ k = 1
    /\ nonce = batch_size
    /\ mem["blockTemplate"] = {Template}
    /\ NonceTag(nonce) \in mem["hashes"]

C18_SelectFailureIsFatal ==
    /\ mainError = "cudaSetDevice failed!" =>
        /\ pc = "exited"
        /\ exitStatus = 1
        /\ \A b \in AllBuffers : mallocs[b] = 0 /\ ptr[b] = "unborn"
        /\ result = "running"
        /\ reported = "none"
        /\ issued = <<>> /\ unconfirmed = 0
        /\ passed = <<>> /\ reads = {}
        /\ free_mem = 0
    /\ pc \notin {"M38", "M47", "exited"} => mainError = "none"

\* The device selection failed with --mine on the command line.
C18_SelectFailedBeforeMining ==
    /\ mode = "mine"
    /\ mainError = "cudaSetDevice failed!"
    /\ exitStatus = 1

\* The kernel tests of tests() in the order they are coded, by the name each
\* prints when it passes, and the messages of their mismatches.
TestOrder ==
    <<"blake2b_initial_hash", "fillAes1Rx4 (scratchpads)", "fillAes1Rx4 (programs)",
      "hashAes1Rx4", "blake2b_hash_registers (32 byte hash)",
      "blake2b_hash_registers (64 byte hash)">>

\* How many tests have passed when a mismatch message is printed.
PassedBefore(message) ==
    CASE message = "blake2b_initial_hash test failed!" -> {0}
      [] message = "fillAes1Rx4 test (hash) failed!" -> {1, 2}
      [] message = "fillAes1Rx4 test (scratchpad) failed!" -> {1}
      [] message = "fillAes1Rx4 test (program) failed!" -> {2}
      [] message = "hashAes1Rx4 test failed!" -> {3}
      [] message = "blake2b_hash_registers (32 byte hash) test failed!" -> {4}
      [] message = "blake2b_hash_registers (64 byte hash) test failed!" -> {5}
      [] OTHER -> {}

IsMismatch(message) == PassedBefore(message) # {}

\* C11 as stated: a mismatch fails only its own test, the remaining
\* independent tests still run.  With a defect in a kernel whose output no
\* other test reads, every test but the failed one has passed once tests()
\* has returned.
C11_RemainingTestsRun ==
    (/\ pc \in {"returned", "exited"}
     /\ IsMismatch(reported)
     /\ defect \in {"programData", "fold32"}
     /\ dRegs.low = "zero") =>
        Len(passed) = Len(TestOrder) - 1

\* C11, amended: the tests run in their coded order, each only after the one
\* before it has passed; a mismatch is reported and ends tests() at once, with
\* its buffers released and none of the later tests or benchmarks run; the
\* process goes on to cudaDeviceReset, on which alone its exit status depends.
C11_MismatchEndsTests ==
    /\ Len(passed) <= Len(TestOrder)
    /\ \A j \in 1..Len(passed) : passed[j] = TestOrder[j]
    /\ IsMismatch(reported) =>
        /\ pc \in {"returned", "exited"}
        /\ result = "void"
        /\ Len(passed) \in PassedBefore(reported)
        /\ \A b \in TestBuffers : ptr[b] = "dead" /\ frees[b] = mallocs[b]
        /\ pc = "exited" =>
               (exitStatus = 1) = (mainError = "cudaDeviceReset failed!")

\* The scratchpad fill mismatched: one test had passed, four were never run,
\* and the process has exited with status 0.
C11_MismatchSkippedLaterTests ==
    /\ pc = "exited"
    /\ exitStatus = 0
    /\ reported = "fillAes1Rx4 test (scratchpad) failed!"
    /\ passed = <<"blake2b_initial_hash">>

\* What the harness has compared of one buffer.
ReadsOf(buffer) == {r \in reads : r[1] = buffer}

\* The byte offsets of the physical chunks of a buffer of n lanes.
ChunkOffsets(n, chunks) == {CHUNK * q : q \in 0..(n * chunks - 1)}

\* C13: chunk c of lane l of L lanes is stored at physical chunk c*L + l;
\* the map is one-to-one and onto the chunks of the buffer; the harness reads
\* chunk c of lane l at exactly that chunk, so that it has read every chunk
\* of the buffer once when the test passes, and from a sound fill it reads
\* back each lane's own chunks in order (the test fails on a defective fill
\* only).
C13_InterleaveInvertible ==
    /\ \A n \in 1..TestLanes :
        LET Pairs == (0..(n - 1)) \X (0..(ScratchChunks - 1)) IN
        /\ \A x, y \in Pairs :
               InterleavedAt(x[1], x[2], n) = InterleavedAt(y[1], y[2], n) => x = y
        /\ {InterleavedAt(x[1], x[2], n) : x \in Pairs} = 0..(n * ScratchChunks - 1)
    /\ \A l \in 0..(TestLanes - 1), c \in 0..(ScratchChunks - 1) :
           ScratchOffset(l, c * CHUNK) = CHUNK * InterleavedAt(l, c, TestLanes)
    /\ \A r \in ReadsOf("scratchpads") :
        /\ r[4] = CHUNK * InterleavedAt(r[2], r[3], TestLanes)
        /\ defect # "scratchData" => ChunkAtOffset(dScratch, r[4]) = ChunkOf(r[2], r[3])
    /\ \A r1, r2 \in ReadsOf("scratchpads") : r1[4] = r2[4] => r1 = r2
    /\ Len(passed) >= 2 =>
           {r[4] : r \in ReadsOf("scratchpads")} = ChunkOffsets(TestLanes, ScratchChunks)
    /\ reported = "fillAes1Rx4 test (scratchpad) failed!" => defect = "scratchData"

\* The scratchpad test has passed on a sound fill, every chunk of every lane
\* read back.
C13_AllChunksReadBack ==
    /\ pc = "T417"
    /\ defect = "none"
    /\ Cardinality(ReadsOf("scratchpads")) = TestLanes * ScratchChunks
    /\ <<"scratchpads", TestLanes - 1, ScratchChunks - 1,
          CHUNK * (TestLanes * ScratchChunks - 1)>> \in reads

\* C14 as stated: the harness reads chunk c of lane l of the program buffer
\* at physical chunk c*L + l, undoing the scratchpad's interleave.
C14_ProgramsDeinterleaved ==
    \A r \in ReadsOf("programs") : r[4] = CHUNK * InterleavedAt(r[2], r[3], TestLanes)

\* C14, amended: the harness compares the program buffer without any
\* de-interleaving.  It reads chunk c of lane l at physical chunk
\* l*(PROGRAM_SIZE/64) + c, lane l's program being the PROGRAM_SIZE bytes at
\* offset l*PROGRAM_SIZE; it has read every chunk of the buffer once when the
\* test passes, and a fill that stores each lane's program in one piece is
\* what passes it.
C14_ProgramsComparedInPlace ==
    /\ \A l \in 0..(TestLanes - 1), c \in 0..(ProgChunks - 1) :
           ProgramOffset(l, c * CHUNK) = CHUNK * ContiguousAt(l, c, ProgChunks)
    /\ \A r \in ReadsOf("programs") :
        /\ r[4] = r[2] * TestProgramBytes + r[3] * CHUNK
        /\ defect # "programData" => ChunkAtOffset(dProgs, r[4]) = ChunkOf(r[2], r[3])
    /\ \A r1, r2 \in ReadsOf("programs") : r1[4] = r2[4] => r1 = r2
    /\ Len(passed) >= 3 =>
           {r[4] : r \in ReadsOf("programs")} = ChunkOffsets(TestLanes, ProgChunks)
    /\ reported = "fillAes1Rx4 test (program) failed!" => defect = "programData"

\* The program test has passed; lane 0's second chunk was read right behind
\* its first, where an interleaved buffer holds lane 1's first chunk.
C14_SecondChunkAdjacent ==
    /\ pc = "T458"
    /\ defect = "none"
    /\ Cardinality(ReadsOf("programs")) = TestLanes * ProgChunks
    /\ <<"programs", 0, 1, CHUNK>> \in reads
    /\ CHUNK * InterleavedAt(1, 0, TestLanes) = CHUNK

\* C15: when the harness compares a lane's whole register file with the
\* reference, every byte compared was written by the compress step (the
\* bytes from 192 on) or was zero before it (the bytes below 192).
C15_ComparedWrittenOrZero ==
    pc = "T472" =>
        /\ dRegs.out \in {"compress", "wrong"}
        /\ dRegs.low = "zero"

\* C22: the exit status is set when main returns and at no other time; it
\* is 1 exactly when cudaSetDevice or cudaDeviceReset failed and 0 otherwise,
\* whatever test_mining or tests() returned or reported.  A run of either mode
\* that has returned, with a failure or not, is followed by cudaDeviceReset:
\* the process has then exited 0, or 1 with the reset's failure reported.
C22_ExitStatusFromDeviceOnly ==
    /\ (pc = "exited") = (exitStatus # -1)
    /\ exitStatus \in {-1, 0, 1}
    /\ (exitStatus = 1) =
           (mainError \in {"cudaSetDevice failed!", "cudaDeviceReset failed!"})
    /\ (pc = "exited" /\ result # "running") =>
           /\ mainError # "cudaSetDevice failed!"
           /\ exitStatus = 0 \/ mainError = "cudaDeviceReset failed!"
    /\ mode = "usage" => (exitStatus \in {-1, 0} /\ mainError = "none")

\* A mining run aborted for lack of memory and the process exited 0.
C22_AbortedRunExitsZero ==
    /\ pc = "exited"
    /\ mode = "mine"
    /\ result = "false"
    /\ reported = "Not enough free GPU memory!"
    /\ mainError = "none"
    /\ exitStatus = 0

\* The threads that work on one lane: four cooperate in the cipher fill and
\* compress kernels, one in the keyed-hash and register kernels.
ThreadsPerLane(name) ==
    IF name \in {"fillAes1Rx4", "hashAes1Rx4"} THEN COOPERATING ELSE 1

\* C21 as stated: every buffer a launch of the mining loop is given holds
\* exactly L per-lane regions.
C21_EveryBufferPerLane ==
    \A j \in 1..Len(issued) :
        \A b \in issued[j].args : LanesOf(b) = batch_size

\* C21, amended: every launch of the mining loop has batch_size / 32 blocks,
\* of 32 threads (one per lane) for the keyed-hash and register kernels and
\* of 128 threads (four per lane) for the fill and compress kernels, so its
\* threads are exactly those of the L = batch_size lanes, L a positive
\* multiple of 32; every per-lane buffer it is given is allocated and holds
\* exactly L per-lane regions.  The template, given to the keyed hash, is the
\* exception: it is one region shared by all lanes.
C21_LaunchCoversBatch ==
    \A j \in 1..Len(issued) :
        LET kern == issued[j] IN
        /\ batch_size > 0
        /\ batch_size % LANE_GROUP = 0
        /\ kern.grid * LANE_GROUP = batch_size
        /\ kern.block = LANE_GROUP * ThreadsPerLane(kern.kernel)
        /\ kern.grid * kern.block = batch_size * ThreadsPerLane(kern.kernel)
        /\ kern.args # {}
        /\ \A b \in kern.args :
            /\ mallocs[b] = 1
            /\ LanesOf(b) = IF b = "blockTemplate" THEN 1 ELSE batch_size
        /\ ("blockTemplate" \in kern.args) = (kern.kernel = "blake2b_initial_hash")

\* A whole batch of more than one lane group has been launched, its fills
\* and its compress with four threads for each lane.
C21_TwoGroupsLaunched ==
    /\ pc = "L268"
    /\ batch_size = 2 * LANE_GROUP
    /\ Len(issued) = KernelsPerBatch
    /\ \E j \in 1..Len(issued) :
           issued[j].kernel = "hashAes1Rx4" /\ issued[j].grid * issued[j].block = COOPERATING * batch_size

====
